---- MODULE Spec2Model ----
(***************************************************************************)
(* PrintPerfect AI (nickd290/Preflight): the App shell with its API-key    *)
(* gate and tabs, the preflight upload/analysis session, the report        *)
(* dashboard with its zone overlay, the image generator and the image      *)
(* editor, together with the Gemini service adapter they call.             *)
(*                                                                         *)
(* React state is modelled per render: an action is one event handler or   *)
(* one continuation of an async handler, and the guards are the render     *)
(* conditions under which the control that fires the handler exists.       *)
(***************************************************************************)
EXTENDS Integers, Sequences, FiniteSets, TLC

\* ------------------------------------------------------------------------
\* Bounds of the model
\* ------------------------------------------------------------------------
\* largest page count a loaded preview document reports
MaxPages == 2
\* cap on the calls of one surface, and on the key dialogs, that the model lets
\* be in flight together
MaxCalls == 2

\* ------------------------------------------------------------------------
\* JavaScript values.  Every value has the same record shape so that any two
\* can be compared: t is the type tag, n the number (or 1/0 for a boolean),
\* s the string, a the array elements, o the object's own properties.
\* ------------------------------------------------------------------------
NoProps == [k \in {} |-> 0]
J(t, n, s, a, o) == [t |-> t, n |-> n, s |-> s, a |-> a, o |-> o]
JNull == J("null", 0, "", <<>>, NoProps)
JUndef == J("undefined", 0, "", <<>>, NoProps)
JNum(n) == J("num", n, "", <<>>, NoProps)
JStr(s) == J("str", 0, s, <<>>, NoProps)
JBool(b) == J("bool", IF b THEN 1 ELSE 0, "", <<>>, NoProps)
JArr(a) == J("arr", 0, "", a, NoProps)
JObj(o) == J("obj", 0, "", <<>>, o)

\* JavaScript truthiness: null, undefined, 0, "" and false are falsy
Truthy(v) ==
  CASE v.t = "null" -> FALSE
    [] v.t = "undefined" -> FALSE
    [] v.t = "num" -> v.n # 0
    [] v.t = "str" -> v.s # ""
    [] v.t = "bool" -> v.n = 1
    [] OTHER -> TRUE

\* property read v.k: undefined when v has no such own property
Get(v, k) == IF v.t = "obj" /\ k \in DOMAIN v.o THEN v.o[k] ELSE JUndef

\* v === 'lit' for a string literal
IsStr(v, lit) == v.t = "str" /\ v.s = lit

\* ------------------------------------------------------------------------
\* JSON text and JSON.parse.  A text is its token sequence.
\* ------------------------------------------------------------------------
Tok(k, s, n) == [k |-> k, s |-> s, n |-> n]
TP(s) == Tok("p", s, 0)
TS(s) == Tok("str", s, 0)
TN(n) == Tok("num", "", n)
TL(s) == Tok("lit", s, 0)

ParseOk(v, next) == [ok |-> TRUE, v |-> v, next |-> next]
ParseFail == [ok |-> FALSE, v |-> JUndef, next |-> 0]

RECURSIVE ParseValue(_, _)
RECURSIVE ParseMembers(_, _, _)
RECURSIVE ParseElements(_, _, _)

\* members of an object after '{' or ',': string ':' value, then ',' or '}'
ParseMembers(toks, i, acc) ==
  IF i + 1 > Len(toks) \/ toks[i].k # "str" \/ toks[i + 1] # TP(":")
  THEN ParseFail
  ELSE LET key == toks[i].s
           r == ParseValue(toks, i + 2)
       IN IF ~r.ok \/ r.next > Len(toks)
          THEN ParseFail
          ELSE LET acc2 == [x \in (DOMAIN acc) \cup {key} |->
                              IF x = key THEN r.v ELSE acc[x]]
               IN CASE toks[r.next] = TP(",") -> ParseMembers(toks, r.next + 1, acc2)
                    [] toks[r.next] = TP("}") -> ParseOk(JObj(acc2), r.next + 1)
                    [] OTHER -> ParseFail

\* elements of an array after '[' or ',': value, then ',' or ']'
ParseElements(toks, i, acc) ==
  LET r == ParseValue(toks, i)
  IN IF ~r.ok \/ r.next > Len(toks)
     THEN ParseFail
     ELSE CASE toks[r.next] = TP(",") -> ParseElements(toks, r.next + 1, Append(acc, r.v))
            [] toks[r.next] = TP("]") -> ParseOk(JArr(Append(acc, r.v)), r.next + 1)
            [] OTHER -> ParseFail

ParseValue(toks, i) ==
  IF i > Len(toks)
  THEN ParseFail
  ELSE LET tk == toks[i]
       IN CASE tk.k = "num" -> ParseOk(JNum(tk.n), i + 1)
            [] tk.k = "str" -> ParseOk(JStr(tk.s), i + 1)
            [] tk.k = "lit" /\ tk.s = "null" -> ParseOk(JNull, i + 1)
            [] tk.k = "lit" /\ tk.s = "true" -> ParseOk(JBool(TRUE), i + 1)
            [] tk.k = "lit" /\ tk.s = "false" -> ParseOk(JBool(FALSE), i + 1)
            [] tk = TP("{") ->
                 IF i + 1 <= Len(toks) /\ toks[i + 1] = TP("}")
                 THEN ParseOk(JObj(NoProps), i + 2)
                 ELSE ParseMembers(toks, i + 1, NoProps)
            [] tk = TP("[") ->
                 IF i + 1 <= Len(toks) /\ toks[i + 1] = TP("]")
                 THEN ParseOk(JArr(<<>>), i + 2)
                 ELSE ParseElements(toks, i + 1, <<>>)
            [] OTHER -> ParseFail

\* JSON.parse(text): the value, or a SyntaxError (ok = FALSE)
JSONParse(text) ==
  LET r == ParseValue(text, 1)
  IN IF r.ok /\ r.next = Len(text) + 1
     THEN [ok |-> TRUE, v |-> r.v]
     ELSE [ok |-> FALSE, v |-> JUndef]

\* ------------------------------------------------------------------------
\* Replies of the remote analysis call.  The remote serialises a value to
\* JSON text; Ser writes the properties of an object in KeyOrder.
\* ------------------------------------------------------------------------
KeyOrder ==
  << "overallScore", "summary", "finalVerdict", "specs", "checks",
     "pageCount", "detectedDimensions", "colorProfileEstimate", "hasCropMarks",
     "category", "status", "title", "description", "location", "visualZone" >>

RECURSIVE Ser(_)
RECURSIVE SerElems(_, _)
RECURSIVE SerMembers(_, _, _)

SerElems(a, i) ==
  IF i > Len(a) THEN <<>>
  ELSE (IF i > 1 THEN <<TP(",")>> ELSE <<>>) \o Ser(a[i]) \o SerElems(a, i + 1)

SerMembers(o, i, first) ==
  IF i > Len(KeyOrder) THEN <<>>
  ELSE IF KeyOrder[i] \in DOMAIN o
       THEN (IF first THEN <<>> ELSE <<TP(",")>>)
            \o <<TS(KeyOrder[i]), TP(":")>> \o Ser(o[KeyOrder[i]])
            \o SerMembers(o, i + 1, FALSE)
       ELSE SerMembers(o, i + 1, first)

Ser(v) ==
  CASE v.t = "num" -> <<TN(v.n)>>
    [] v.t = "str" -> <<TS(v.s)>>
    [] v.t = "bool" -> <<TL(IF v.n = 1 THEN "true" ELSE "false")>>
    [] v.t = "arr" -> <<TP("[")>> \o SerElems(v.a, 1) \o <<TP("]")>>
    [] v.t = "obj" -> <<TP("{")>> \o SerMembers(v.o, 1, TRUE) \o <<TP("}")>>
    [] OTHER -> <<TL("null")>>

\* the closed sets of the report contract
Verdicts == {"READY_FOR_PRINT", "NEEDS_REVIEW", "DO_NOT_PRINT"}
Categories == {"LAYOUT", "TYPOGRAPHY", "IMAGERY", "CONTENT", "COLOR"}
Statuses == {"PASS", "WARN", "FAIL"}
GridZones ==
  {"TOP_LEFT", "TOP_CENTER", "TOP_RIGHT", "MIDDLE_LEFT", "CENTER",
   "MIDDLE_RIGHT", "BOTTOM_LEFT", "BOTTOM_CENTER", "BOTTOM_RIGHT"}
ZoneNames == GridZones \cup {"FULL_PAGE"}
RequiredFields == {"overallScore", "summary", "finalVerdict", "specs", "checks"}
RequiredCheckFields == {"category", "status", "title", "description"}

\* zone strings a reply may carry: the enumeration, an unknown name, the empty string
ZoneInputs == ZoneNames \cup {"HEADER", ""}

Specs0 ==
  JObj([pageCount |-> JNum(2), detectedDimensions |-> JStr("8.5x11 in"),
        colorProfileEstimate |-> JStr("RGB Detected"), hasCropMarks |-> JBool(FALSE)])

Check(cat, st, title, desc) ==
  JObj([category |-> JStr(cat), status |-> JStr(st),
        title |-> JStr(title), description |-> JStr(desc)])
WithProp(obj, k, v) == JObj([x \in (DOMAIN obj.o) \cup {k} |-> IF x = k THEN v ELSE obj.o[x]])
Without(obj, k) == JObj([x \in (DOMAIN obj.o) \ {k} |-> obj.o[x]])

ReportOf(score, verdict, checks) ==
  JObj([overallScore |-> JNum(score), summary |-> JStr("summary"),
        finalVerdict |-> JStr(verdict), specs |-> Specs0, checks |-> JArr(checks)])

FailCheck == Check("COLOR", "FAIL", "RGB images detected", "Images are RGB")
WarnCheck == WithProp(Check("CONTENT", "WARN", "Typo", "Possible typo"), "visualZone", JStr("CENTER"))
PassCheck == WithProp(Check("LAYOUT", "PASS", "Bleed", "Bleed is fine"), "location", JStr("Page 1"))

\* schema-valid reports, and reports valid but for the zone of the first check
\* (an unknown name, an empty string, a number, null)
ZoneReports ==
  {ReportOf(82, "NEEDS_REVIEW", <<WithProp(FailCheck, "visualZone", JStr(z)), WarnCheck, PassCheck>>) :
     z \in ZoneInputs}
  \cup {ReportOf(82, "NEEDS_REVIEW", <<WithProp(FailCheck, "visualZone", z), WarnCheck, PassCheck>>) :
          z \in {JNum(7), JNull}}
  \cup {ReportOf(82, "NEEDS_REVIEW", <<FailCheck, WarnCheck, PassCheck>>)}
Report0 == ReportOf(82, "NEEDS_REVIEW", <<WithProp(FailCheck, "visualZone", JStr("CENTER")), WarnCheck, PassCheck>>)
\* a report whose verdict contradicts its checks, and one with no checks
OtherReports ==
  {ReportOf(97, "READY_FOR_PRINT", <<FailCheck>>), ReportOf(100, "READY_FOR_PRINT", <<>>)}
\* parseable replies that break the contract
MissingFieldReports == {Without(Report0, k) : k \in RequiredFields}
BadEnumReports ==
  {WithProp(Report0, "finalVerdict", JStr("MAYBE")),
   ReportOf(50, "DO_NOT_PRINT", <<Check("SPELLING", "FAIL", "t", "d")>>),
   ReportOf(50, "DO_NOT_PRINT", <<Check("COLOR", "ERROR", "t", "d")>>),
   ReportOf(50, "DO_NOT_PRINT", <<Check("COLOR", "WARN", "", "d")>>),
   ReportOf(50, "DO_NOT_PRINT", <<Check("COLOR", "WARN", "t", "")>>)}
NonObjectValues == {JNull, JNum(82)}
\* reports with an object, or an array, where the dashboard puts a text: in the
\* title of the FAIL check, the location of the WARN check, the title of the
\* PASS check, the summary
ObjectFieldReports ==
  {ReportOf(82, "NEEDS_REVIEW", <<WithProp(FailCheck, "title", JObj(NoProps)), WarnCheck, PassCheck>>),
   ReportOf(82, "NEEDS_REVIEW", <<FailCheck, WithProp(WarnCheck, "location", JObj(NoProps)), PassCheck>>),
   ReportOf(82, "NEEDS_REVIEW", <<FailCheck, WarnCheck, WithProp(PassCheck, "title", JObj(NoProps))>>),
   WithProp(Report0, "summary", JArr(<<JObj(NoProps)>>)),
   WithProp(Report0, "summary", JArr(<<JStr("summary"), JNum(1)>>))}

ReplyValues ==
  ZoneReports \cup OtherReports \cup MissingFieldReports \cup BadEnumReports
  \cup NonObjectValues \cup ObjectFieldReports

\* reply texts that are not JSON: a bare word, and a text cut off in the middle
Garbage == <<Tok("word", "Sorry", 0)>>
Truncated == SubSeq(Ser(Report0), 1, 9)

\* what generateContent settles with: a rejection, or a response with or without text
Reject == [kind |-> "reject", hasText |-> FALSE, text |-> <<>>]
Response(text) == [kind |-> "response", hasText |-> TRUE, text |-> text]
NoText == [kind |-> "response", hasText |-> FALSE, text |-> <<>>]
AnalysisReplies ==
  {Reject, NoText, Response(<<>>), Response(Garbage), Response(Truncated)}
  \cup {Response(Ser(v)) : v \in ReplyValues}

\* ------------------------------------------------------------------------
\* services/geminiService.ts
\* ------------------------------------------------------------------------
AnalyzeFailedMsg == "Failed to analyze the PDF. Please try again."
UnexpectedMsg == "An unexpected error occurred."
Null == "<null>"

Resolved(v) == [ok |-> TRUE, v |-> v, msg |-> Null]
Thrown(msg) == [ok |-> FALSE, v |-> JUndef, msg |-> msg]

\* analyzePdf correcting the verdict of a parsed report that has a FAIL check
AnalyzePdfNormalises(reply) ==
  IF reply.kind = "reject" THEN Thrown(AnalyzeFailedMsg)
  ELSE IF ~reply.hasText \/ Len(reply.text) = 0 THEN Thrown(AnalyzeFailedMsg)
  ELSE LET p == JSONParse(reply.text)
           failing == Get(p.v, "checks").t = "arr" /\
                      \E k \in DOMAIN Get(p.v, "checks").a :
                        IsStr(Get(Get(p.v, "checks").a[k], "status"), "FAIL")
       IN IF ~p.ok THEN Thrown(AnalyzeFailedMsg)
          ELSE IF failing THEN Resolved(WithProp(p.v, "finalVerdict", JStr("DO_NOT_PRINT")))
          ELSE Resolved(p.v)

\* analyzePdf: every throw inside the try is replaced by one fixed Error
AnalyzePdf(reply) ==
  IF reply.kind = "reject" THEN Thrown(AnalyzeFailedMsg)
  ELSE IF ~reply.hasText \/ Len(reply.text) = 0 THEN Thrown(AnalyzeFailedMsg)
  ELSE LET p == JSONParse(reply.text)
       IN IF p.ok THEN Resolved(p.v) ELSE Thrown(AnalyzeFailedMsg)

\* ------------------------------------------------------------------------
\* Files the user can pick, and FileReader.readAsDataURL
\* ------------------------------------------------------------------------
MaxUploadSize == 20 * 1024 * 1024
PdfFiles == {"small.pdf", "limit.pdf", "over.pdf", "big.pdf"}
ImageFiles == {"a.png", "b.jpg"}
Files == PdfFiles \cup ImageFiles

FileType(f) ==
  CASE f \in PdfFiles -> "application/pdf"
    [] f = "a.png" -> "image/png"
    [] OTHER -> "image/jpeg"
FileSize(f) ==
  CASE f = "small.pdf" -> 5 * 1024 * 1024
    [] f = "limit.pdf" -> 20 * 1024 * 1024
    [] f = "over.pdf" -> 20 * 1024 * 1024 + 1
    [] f = "big.pdf" -> 25 * 1024 * 1024
    [] OTHER -> 1024 * 1024
\* the base64 payload of a file's content
FileData(f) ==
  CASE f = "small.pdf" -> "b64(small.pdf)"
    [] f = "limit.pdf" -> "b64(limit.pdf)"
    [] f = "over.pdf" -> "b64(over.pdf)"
    [] f = "big.pdf" -> "b64(big.pdf)"
    [] f = "a.png" -> "b64(a.png)"
    [] OTHER -> "b64(b.jpg)"
\* a data URL "data:<type>;base64,<payload>" as its pieces around the comma
ReadAsDataURL(f) ==
  << CASE FileType(f) = "application/pdf" -> "data:application/pdf;base64"
       [] FileType(f) = "image/png" -> "data:image/png;base64"
       [] OTHER -> "data:image/jpeg;base64",
     FileData(f) >>
\* result.split(',')[1]
SplitComma1(url) == url[2]
\* type.startsWith('image/')
StartsWithImage(type) == type \in {"image/png", "image/jpeg"}

\* ------------------------------------------------------------------------
\* State
\* ------------------------------------------------------------------------
VARIABLES
  \* App.tsx
  activeTab, hasApiKey, isCheckingKey, file, fileBase64, isAnalyzing, report, error,
  \* window.aistudio present; checkApiKey pending; openSelectKey calls pending
  aistudio, keyCheck, selectKeyCalls,
  \* handleFileSelect invocations that have not finished: [f, pc]
  analyses,
  \* FileUpload
  uploadError, isDragging,
  \* ReportDashboard
  expandedSections, activeZone, activeItemIndex, pdfUrl, pdfDoc, pageNum, numPages,
  renderError, isRendering, pdfLoad,
  \* ImageGenerator, and its handleGenerate invocations that have not finished
  genPrompt, size, isGenerating, generatedImage, genError, genCalls,
  \* ImageEditor, and its handleEdit invocations that have not finished
  originalFile, previewUrl, editedImage, editPrompt, isProcessing, editError, editCalls

appVars == <<activeTab, hasApiKey, isCheckingKey, file, fileBase64, isAnalyzing, report, error>>
keyVars == <<aistudio, keyCheck, selectKeyCalls>>
dashVars == <<expandedSections, activeZone, activeItemIndex, pdfUrl, pdfDoc, pageNum, numPages,
              renderError, isRendering, pdfLoad>>
genVars == <<genPrompt, size, isGenerating, generatedImage, genError, genCalls>>
editVars == <<originalFile, previewUrl, editedImage, editPrompt, isProcessing, editError, editCalls>>
uploadVars == <<uploadError, isDragging>>
vars == <<appVars, keyVars, analyses, uploadVars, dashVars, genVars, editVars>>

Tabs == {"PREFLIGHT", "GENERATOR", "EDITOR"}
NoItem == [sec |-> "", idx |-> -1]
NoDoc == [loaded |-> FALSE, numPages |-> 0]
\* useState initial value of expandedSections
InitialSections == [FAIL |-> TRUE, WARN |-> TRUE, PASS |-> FALSE]
NoImage == <<>>

Init ==
  /\ activeTab = "PREFLIGHT" /\ hasApiKey = FALSE /\ isCheckingKey = TRUE
  /\ file = Null /\ fileBase64 = Null /\ isAnalyzing = FALSE /\ report = JNull /\ error = Null
  /\ aistudio \in BOOLEAN /\ keyCheck = "pending" /\ selectKeyCalls = 0
  /\ analyses = <<>>
  /\ uploadError = Null /\ isDragging = FALSE
  /\ expandedSections = InitialSections
  /\ activeZone = JNull /\ activeItemIndex = NoItem /\ pdfUrl = Null /\ pdfDoc = NoDoc
  /\ pageNum = 1 /\ numPages = 0 /\ renderError = Null /\ isRendering = FALSE /\ pdfLoad = FALSE
  /\ genPrompt = "" /\ size = "1K" /\ isGenerating = FALSE /\ generatedImage = NoImage
  /\ genError = Null /\ genCalls = <<>>
  /\ originalFile = Null /\ previewUrl = Null /\ editedImage = NoImage /\ editPrompt = ""
  /\ isProcessing = FALSE /\ editError = Null /\ editCalls = <<>>

\* ------------------------------------------------------------------------
\* What App renders
\* ------------------------------------------------------------------------
\* the fullscreen dashboard branch of App's render
DashboardCond(rep, f, analyzing, tab) ==
  Truthy(rep) /\ f # Null /\ ~analyzing /\ tab = "PREFLIGHT"
\* the gate letting the application through as soon as the key check is over
GateWithoutKeyTest == ~isCheckingKey
GatePassed == ~isCheckingKey /\ hasApiKey
DashboardShown == GatePassed /\ DashboardCond(report, file, isAnalyzing, activeTab)

\* checksByStatus[status]
checksByStatus(rep, st) ==
  SelectSeq(Get(rep, "checks").a, LAMBDA c : IsStr(Get(c, "status"), st))

RECURSIVE ValidChild(_)
\* a value put in the tree as a child: strings, numbers, booleans, null and
\* undefined render, an array renders when its elements do, and a plain object
\* makes the render throw
ValidChild(v) ==
  IF v.t = "obj" THEN FALSE
  ELSE IF v.t = "arr" THEN \A i \in DOMAIN v.a : ValidChild(v.a[i])
  ELSE TRUE

\* renderCheckItem returns without a throw: title, category and description are
\* children, and item.location || "General Area" is one when the item has a
\* location or a zone
RenderCheckItemOK(item) ==
  /\ ValidChild(Get(item, "title"))
  /\ ValidChild(Get(item, "category"))
  /\ ValidChild(Get(item, "description"))
  /\ (Truthy(Get(item, "location")) \/ Truthy(Get(item, "visualZone"))) =>
       ValidChild(IF Truthy(Get(item, "location")) THEN Get(item, "location")
                  ELSE JStr("General Area"))

\* ReportDashboard's render reads report.finalVerdict.replace, report.specs.* and
\* report.checks.filter(c => c.status ...), puts summary, score and the two
\* spec strings in the tree, and renders the items of every expanded section;
\* a throw there unmounts the whole application
RenderOKWith(rep, expanded) ==
  /\ Get(rep, "finalVerdict").t = "str"
  /\ Get(rep, "specs").t \notin {"undefined", "null"}
  /\ Get(rep, "checks").t = "arr"
  /\ \A i \in DOMAIN Get(rep, "checks").a : Get(rep, "checks").a[i].t \notin {"undefined", "null"}
  /\ ValidChild(Get(rep, "summary")) /\ ValidChild(Get(rep, "overallScore"))
  /\ ValidChild(Get(Get(rep, "specs"), "detectedDimensions"))
  /\ ValidChild(Get(Get(rep, "specs"), "colorProfileEstimate"))
  /\ \A st \in {"FAIL", "WARN", "PASS"} :
       expanded[st] =>
         \A j \in DOMAIN checksByStatus(rep, st) : RenderCheckItemOK(checksByStatus(rep, st)[j])
\* the render with the sections as they are now
RenderOK(rep) == RenderOKWith(rep, expandedSections)
Crashed == DashboardShown /\ ~RenderOK(report)

\* header with the tab buttons, and the main content area
MainView == GatePassed /\ ~DashboardShown
\* the upload control rendered whenever there is no report, also during an analysis
FileUploadShownNoFileTest == MainView /\ activeTab = "PREFLIGHT" /\ ~Truthy(report)
FileUploadShown == MainView /\ activeTab = "PREFLIGHT" /\ file = Null /\ ~Truthy(report)
ErrorPanelShown ==
  MainView /\ activeTab = "PREFLIGHT" /\ error # Null /\ error # "" /\ ~isAnalyzing /\ ~Truthy(report)
GeneratorMounted == MainView /\ activeTab = "GENERATOR"
EditorMounted == MainView /\ activeTab = "EDITOR"

\* ------------------------------------------------------------------------
\* ReportDashboard: zone overlay
\* ------------------------------------------------------------------------
ZoneBase ==
  << "absolute", "border-2", "border-red-500", "bg-red-500/20", "transition-all",
     "duration-300", "z-20", "box-border", "shadow-[0_0_15px_rgba(239,68,68,0.5)]" >>

\* getZoneStyles with the TOP_RIGHT case anchored left, as a copied TOP_LEFT line would be
getZoneStylesTopRightLeft(zone) ==
  IF zone.t # "str" THEN <<"hidden">>
  ELSE CASE zone.s = "TOP_LEFT" -> ZoneBase \o <<"top-0", "left-0", "w-1/3", "h-1/3", "rounded-tl-lg">>
         [] zone.s = "TOP_CENTER" -> ZoneBase \o <<"top-0", "left-1/3", "w-1/3", "h-1/3">>
         [] zone.s = "TOP_RIGHT" -> ZoneBase \o <<"top-0", "left-0", "w-1/3", "h-1/3", "rounded-tr-lg">>
         [] zone.s = "MIDDLE_LEFT" -> ZoneBase \o <<"top-1/3", "left-0", "w-1/3", "h-1/3">>
         [] zone.s = "CENTER" -> ZoneBase \o <<"top-1/3", "left-1/3", "w-1/3", "h-1/3">>
         [] zone.s = "MIDDLE_RIGHT" -> ZoneBase \o <<"top-1/3", "right-0", "w-1/3", "h-1/3">>
         [] zone.s = "BOTTOM_LEFT" -> ZoneBase \o <<"bottom-0", "left-0", "w-1/3", "h-1/3", "rounded-bl-lg">>
         [] zone.s = "BOTTOM_CENTER" -> ZoneBase \o <<"bottom-0", "left-1/3", "w-1/3", "h-1/3">>
         [] zone.s = "BOTTOM_RIGHT" -> ZoneBase \o <<"bottom-0", "right-0", "w-1/3", "h-1/3", "rounded-br-lg">>
         [] zone.s = "FULL_PAGE" -> ZoneBase \o <<"inset-0">>
         [] OTHER -> <<"hidden">>

\* getZoneStyles with the BOTTOM_CENTER case two cells wide
getZoneStylesWideBottom(zone) ==
  IF zone.t # "str" THEN <<"hidden">>
  ELSE CASE zone.s = "TOP_LEFT" -> ZoneBase \o <<"top-0", "left-0", "w-1/3", "h-1/3", "rounded-tl-lg">>
         [] zone.s = "TOP_CENTER" -> ZoneBase \o <<"top-0", "left-1/3", "w-1/3", "h-1/3">>
         [] zone.s = "TOP_RIGHT" -> ZoneBase \o <<"top-0", "right-0", "w-1/3", "h-1/3", "rounded-tr-lg">>
         [] zone.s = "MIDDLE_LEFT" -> ZoneBase \o <<"top-1/3", "left-0", "w-1/3", "h-1/3">>
         [] zone.s = "CENTER" -> ZoneBase \o <<"top-1/3", "left-1/3", "w-1/3", "h-1/3">>
         [] zone.s = "MIDDLE_RIGHT" -> ZoneBase \o <<"top-1/3", "right-0", "w-1/3", "h-1/3">>
         [] zone.s = "BOTTOM_LEFT" -> ZoneBase \o <<"bottom-0", "left-0", "w-1/3", "h-1/3", "rounded-bl-lg">>
         [] zone.s = "BOTTOM_CENTER" -> ZoneBase \o <<"bottom-0", "left-1/3", "right-0", "h-1/3">>
         [] zone.s = "BOTTOM_RIGHT" -> ZoneBase \o <<"bottom-0", "right-0", "w-1/3", "h-1/3", "rounded-br-lg">>
         [] zone.s = "FULL_PAGE" -> ZoneBase \o <<"inset-0">>
         [] OTHER -> <<"hidden">>

\* getZoneStyles: the class list of the overlay box for a zone
getZoneStyles(zone) ==
  IF zone.t # "str" THEN <<"hidden">>
  ELSE CASE zone.s = "TOP_LEFT" -> ZoneBase \o <<"top-0", "left-0", "w-1/3", "h-1/3", "rounded-tl-lg">>
         [] zone.s = "TOP_CENTER" -> ZoneBase \o <<"top-0", "left-1/3", "w-1/3", "h-1/3">>
         [] zone.s = "TOP_RIGHT" -> ZoneBase \o <<"top-0", "right-0", "w-1/3", "h-1/3", "rounded-tr-lg">>
         [] zone.s = "MIDDLE_LEFT" -> ZoneBase \o <<"top-1/3", "left-0", "w-1/3", "h-1/3">>
         [] zone.s = "CENTER" -> ZoneBase \o <<"top-1/3", "left-1/3", "w-1/3", "h-1/3">>
         [] zone.s = "MIDDLE_RIGHT" -> ZoneBase \o <<"top-1/3", "right-0", "w-1/3", "h-1/3">>
         [] zone.s = "BOTTOM_LEFT" -> ZoneBase \o <<"bottom-0", "left-0", "w-1/3", "h-1/3", "rounded-bl-lg">>
         [] zone.s = "BOTTOM_CENTER" -> ZoneBase \o <<"bottom-0", "left-1/3", "w-1/3", "h-1/3">>
         [] zone.s = "BOTTOM_RIGHT" -> ZoneBase \o <<"bottom-0", "right-0", "w-1/3", "h-1/3", "rounded-br-lg">>
         [] zone.s = "FULL_PAGE" -> ZoneBase \o <<"inset-0">>
         [] OTHER -> <<"hidden">>

HasClass(classes, c) == \E i \in DOMAIN classes : classes[i] = c

\* one axis of an absolutely positioned box, in thirds of the containing block;
\* -1 stands for auto.  start/end are the insets, len the explicit size.
AxisPos(start, end, len) ==
  IF start >= 0 THEN start ELSE IF end >= 0 /\ len >= 0 THEN 3 - end - len ELSE 0
AxisLen(start, end, len) ==
  IF len >= 0 THEN len ELSE IF start >= 0 /\ end >= 0 THEN 3 - start - end ELSE 0

\* the box the overlay classes lay out on the page (x, y, w, h in thirds of the
\* page, origin top-left); 'hidden' is display: none
OverlayBox(classes) ==
  IF HasClass(classes, "hidden") \/ ~HasClass(classes, "absolute")
  THEN [shown |-> FALSE, x |-> 0, y |-> 0, w |-> 0, h |-> 0]
  ELSE LET inset == HasClass(classes, "inset-0")
           l == IF inset \/ HasClass(classes, "left-0") THEN 0
                ELSE IF HasClass(classes, "left-1/3") THEN 1 ELSE -1
           r == IF inset \/ HasClass(classes, "right-0") THEN 0 ELSE -1
           t == IF inset \/ HasClass(classes, "top-0") THEN 0
                ELSE IF HasClass(classes, "top-1/3") THEN 1 ELSE -1
           b == IF inset \/ HasClass(classes, "bottom-0") THEN 0 ELSE -1
           w == IF HasClass(classes, "w-1/3") THEN 1 ELSE -1
           h == IF HasClass(classes, "h-1/3") THEN 1 ELSE -1
       IN [shown |-> TRUE, x |-> AxisPos(l, r, w), y |-> AxisPos(t, b, h),
           w |-> AxisLen(l, r, w), h |-> AxisLen(t, b, h)]

NoBox == [shown |-> FALSE, x |-> 0, y |-> 0, w |-> 0, h |-> 0]

DashboardUsable == DashboardShown /\ ~Crashed
\* renderSection renders a section when it has checks, its items when expanded
SectionRendered(st) == DashboardUsable /\ Len(checksByStatus(report, st)) > 0
ItemRendered(st, idx) ==
  SectionRendered(st) /\ expandedSections[st] /\ idx \in 0 .. Len(checksByStatus(report, st)) - 1

\* the overlay layer: drawn once the preview document is loaded and a zone is active
Overlay ==
  IF DashboardUsable /\ pdfDoc.loaded /\ Truthy(activeZone)
  THEN OverlayBox(getZoneStyles(activeZone)) ELSE NoBox

\* state of a freshly mounted ReportDashboard at the commit of its first
\* render: the useState initial values, no object URL and no load yet
DashboardMount ==
  /\ expandedSections' = InitialSections
  /\ activeZone' = JNull /\ activeItemIndex' = NoItem
  /\ pdfUrl' = Null /\ pdfDoc' = NoDoc /\ pageNum' = 1 /\ numPages' = 0
  /\ renderError' = Null /\ isRendering' = FALSE /\ pdfLoad' = FALSE
\* the component is gone: its state with it, and a pending load settles unseen
DashboardUnmount ==
  /\ expandedSections' = InitialSections
  /\ activeZone' = JNull /\ activeItemIndex' = NoItem
  /\ pdfUrl' = Null /\ pdfDoc' = NoDoc /\ pageNum' = 1 /\ numPages' = 0
  /\ renderError' = Null /\ isRendering' = FALSE /\ pdfLoad' = FALSE
\* after a change of App state: mount the dashboard if App now renders it
DashboardAfter(rep, f, analyzing, tab) ==
  IF DashboardCond(rep, f, analyzing, tab) /\ RenderOKWith(rep, InitialSections)
  THEN DashboardMount
  ELSE UNCHANGED dashVars

\* the first effect of the mounted dashboard: the object URL of the file is
\* stored and loadPdf runs up to its await of getDocument
loadPdf ==
  /\ DashboardUsable
  /\ pdfUrl = Null
  /\ pdfUrl' = file
  /\ isRendering' = TRUE
  /\ renderError' = Null
  /\ pdfLoad' = TRUE
  /\ UNCHANGED <<appVars, keyVars, analyses, uploadVars, genVars, editVars,
                 expandedSections, activeZone, activeItemIndex, pdfDoc, pageNum, numPages>>

\* onMouseEnter passing the item's zone on as it is, without the FULL_PAGE default
onMouseEnterNoDefault(st, idx) ==
  /\ ItemRendered(st, idx)
  /\ activeZone' = Get(checksByStatus(report, st)[idx + 1], "visualZone")
  /\ activeItemIndex' = [sec |-> st, idx |-> idx]
  /\ UNCHANGED <<appVars, keyVars, analyses, uploadVars, genVars, editVars,
                 expandedSections, pdfUrl, pdfDoc, pageNum, numPages, renderError,
                 isRendering, pdfLoad>>

onMouseEnter(st, idx) ==
  /\ ItemRendered(st, idx)
  /\ LET item == checksByStatus(report, st)[idx + 1]
         zone == Get(item, "visualZone")
     IN activeZone' = IF Truthy(zone) THEN zone ELSE JStr("FULL_PAGE")
  /\ activeItemIndex' = [sec |-> st, idx |-> idx]
  /\ UNCHANGED <<appVars, keyVars, analyses, uploadVars, genVars, editVars,
                 expandedSections, pdfUrl, pdfDoc, pageNum, numPages, renderError,
                 isRendering, pdfLoad>>

\* onMouseLeave clearing the emphasized item but leaving the zone in place
onMouseLeaveKeepsZone(st, idx) ==
  /\ ItemRendered(st, idx)
  /\ activeItemIndex' = NoItem
  /\ UNCHANGED <<appVars, keyVars, analyses, uploadVars, genVars, editVars,
                 expandedSections, activeZone, pdfUrl, pdfDoc, pageNum, numPages, renderError,
                 isRendering, pdfLoad>>

\* a mouseleave on a rendered item, whichever item has the emphasis
onMouseLeave(st, idx) ==
  /\ ItemRendered(st, idx)
  /\ activeZone' = JNull
  /\ activeItemIndex' = NoItem
  /\ UNCHANGED <<appVars, keyVars, analyses, uploadVars, genVars, editVars,
                 expandedSections, pdfUrl, pdfDoc, pageNum, numPages, renderError,
                 isRendering, pdfLoad>>

\* when the render with the section opened throws, the application is gone
\* and a pending load settles unseen
toggleSection(st) ==
  /\ SectionRendered(st)
  /\ expandedSections' = [expandedSections EXCEPT ![st] = ~@]
  /\ pdfLoad' = (pdfLoad /\ RenderOKWith(report, [expandedSections EXCEPT ![st] = ~@]))
  /\ UNCHANGED <<appVars, keyVars, analyses, uploadVars, genVars, editVars,
                 activeZone, activeItemIndex, pdfUrl, pdfDoc, pageNum, numPages,
                 renderError, isRendering>>

Max(a, b) == IF a >= b THEN a ELSE b
Min(a, b) == IF a <= b THEN a ELSE b

PrevPage ==
  /\ DashboardUsable
  /\ ~(pageNum <= 1)
  /\ pageNum' = Max(1, pageNum - 1)
  /\ UNCHANGED <<appVars, keyVars, analyses, uploadVars, genVars, editVars,
                 expandedSections, activeZone, activeItemIndex, pdfUrl, pdfDoc, numPages,
                 renderError, isRendering, pdfLoad>>

\* the next-page button enabled on the last page too, and a click without the clamp
NextPagePastEnd ==
  /\ DashboardUsable
  /\ ~(pageNum > numPages)
  /\ pageNum' = pageNum + 1
  /\ UNCHANGED <<appVars, keyVars, analyses, uploadVars, genVars, editVars,
                 expandedSections, activeZone, activeItemIndex, pdfUrl, pdfDoc, numPages,
                 renderError, isRendering, pdfLoad>>

NextPage ==
  /\ DashboardUsable
  /\ ~(pageNum >= numPages)
  /\ pageNum' = Min(numPages, pageNum + 1)
  /\ UNCHANGED <<appVars, keyVars, analyses, uploadVars, genVars, editVars,
                 expandedSections, activeZone, activeItemIndex, pdfUrl, pdfDoc, numPages,
                 renderError, isRendering, pdfLoad>>

PreviewFailedMsg == "Failed to load PDF preview. The file might be corrupted or password protected."

\* loadPdf: getDocument resolved with a document of n pages
loadPdfResolved(n) ==
  /\ pdfLoad
  /\ pdfDoc' = [loaded |-> TRUE, numPages |-> n]
  /\ numPages' = n
  /\ isRendering' = FALSE
  /\ pdfLoad' = FALSE
  /\ UNCHANGED <<appVars, keyVars, analyses, uploadVars, genVars, editVars,
                 expandedSections, activeZone, activeItemIndex, pdfUrl, pageNum, renderError>>

\* loadPdf: getDocument rejected
loadPdfRejected ==
  /\ pdfLoad
  /\ renderError' = PreviewFailedMsg
  /\ isRendering' = FALSE
  /\ pdfLoad' = FALSE
  /\ UNCHANGED <<appVars, keyVars, analyses, uploadVars, genVars, editVars,
                 expandedSections, activeZone, activeItemIndex, pdfUrl, pdfDoc, pageNum, numPages>>

\* ------------------------------------------------------------------------
\* Sequences of pending calls
\* ------------------------------------------------------------------------
RemoveAt(seq, i) == SubSeq(seq, 1, i - 1) \o SubSeq(seq, i + 1, Len(seq))
\* the component that started these calls is unmounted: their setState calls do nothing
Orphan(calls) == [i \in DOMAIN calls |-> [calls[i] EXCEPT !.live = FALSE]]

\* String.prototype.trim on the prompts the model types
PromptInputs == {"", "  ", "add a retro filter"}
Trim(p) == IF p = "  " THEN "" ELSE p
\* err.message || fallback
MessageOr(msg, fallback) == IF msg # Null /\ msg # "" THEN msg ELSE fallback

GeneratorUnmount ==
  /\ genPrompt' = "" /\ size' = "1K" /\ isGenerating' = FALSE
  /\ generatedImage' = NoImage /\ genError' = Null
  /\ genCalls' = Orphan(genCalls)
EditorUnmount ==
  /\ originalFile' = Null /\ previewUrl' = Null /\ editedImage' = NoImage
  /\ editPrompt' = "" /\ isProcessing' = FALSE /\ editError' = Null
  /\ editCalls' = Orphan(editCalls)

\* ------------------------------------------------------------------------
\* App.tsx: API-key gate
\* ------------------------------------------------------------------------
\* checkApiKey with setIsCheckingKey(false) at the end of the try instead of in a finally
checkApiKeyNoFinally(outcome) ==
  /\ keyCheck = "pending"
  /\ IF ~aistudio
     THEN outcome = "unavailable" /\ hasApiKey' = TRUE
     ELSE /\ outcome \in {"true", "false", "throws"}
          /\ hasApiKey' = IF outcome = "throws" THEN hasApiKey ELSE (outcome = "true")
  /\ isCheckingKey' = IF outcome = "throws" THEN isCheckingKey ELSE FALSE
  /\ keyCheck' = "done"
  /\ UNCHANGED <<activeTab, file, fileBase64, isAnalyzing, report, error, aistudio,
                 selectKeyCalls, analyses, uploadVars, dashVars, genVars, editVars>>

\* checkApiKey runs to its finally: outcome is what hasSelectedApiKey settles with
checkApiKey(outcome) ==
  /\ keyCheck = "pending"
  /\ IF ~aistudio
     THEN outcome = "unavailable" /\ hasApiKey' = TRUE
     ELSE /\ outcome \in {"true", "false", "throws"}
          /\ hasApiKey' = IF outcome = "throws" THEN hasApiKey ELSE (outcome = "true")
  /\ isCheckingKey' = FALSE
  /\ keyCheck' = "done"
  /\ UNCHANGED <<activeTab, file, fileBase64, isAnalyzing, report, error, aistudio,
                 selectKeyCalls, analyses, uploadVars, dashVars, genVars, editVars>>

\* handleSelectKey up to its await: openSelectKey is called; the button stays
\* enabled meanwhile, so a further click makes a further call
handleSelectKey ==
  /\ ~isCheckingKey /\ ~hasApiKey
  /\ aistudio
  /\ selectKeyCalls < MaxCalls
  /\ selectKeyCalls' = selectKeyCalls + 1
  /\ UNCHANGED <<appVars, aistudio, keyCheck, analyses, uploadVars, dashVars, genVars, editVars>>

\* one of the pending openSelectKey calls settled: on resolve the key is assumed
\* selected, on reject nothing is set; the others stay pending
selectKeySettled(resolved) ==
  /\ selectKeyCalls > 0
  /\ selectKeyCalls' = selectKeyCalls - 1
  /\ hasApiKey' = IF resolved THEN TRUE ELSE hasApiKey
  /\ UNCHANGED <<activeTab, isCheckingKey, file, fileBase64, isAnalyzing, report, error,
                 aistudio, keyCheck, analyses, uploadVars, genVars, editVars>>
  /\ IF resolved /\ ~hasApiKey
     THEN DashboardAfter(report, file, isAnalyzing, activeTab)
     ELSE UNCHANGED dashVars

\* ------------------------------------------------------------------------
\* App.tsx: tabs
\* ------------------------------------------------------------------------
\* a tab button of the header; the tab left is unmounted with its component
setActiveTab(t) ==
  /\ MainView
  /\ t # activeTab
  /\ activeTab' = t
  /\ uploadError' = Null /\ isDragging' = FALSE
  /\ IF activeTab = "GENERATOR" THEN GeneratorUnmount ELSE UNCHANGED genVars
  /\ IF activeTab = "EDITOR" THEN EditorUnmount ELSE UNCHANGED editVars
  /\ DashboardAfter(report, file, isAnalyzing, t)
  /\ UNCHANGED <<hasApiKey, isCheckingKey, file, fileBase64, isAnalyzing, report, error,
                 keyVars, analyses>>

\* ------------------------------------------------------------------------
\* FileUpload and App.handleFileSelect
\* ------------------------------------------------------------------------
NotPdfMsg == "Please upload a PDF file."
TooBigMsg == "File size exceeds 20MB limit."

\* validateAndUpload refusing a file of exactly the size limit
validateAndUploadStrictLimit(f) ==
  IF FileType(f) # "application/pdf" THEN NotPdfMsg
  ELSE IF FileSize(f) >= MaxUploadSize THEN TooBigMsg
  ELSE Null

\* validateAndUpload: the message it sets, or Null when it calls onFileSelect
validateAndUpload(f) ==
  IF FileType(f) # "application/pdf" THEN NotPdfMsg
  ELSE IF FileSize(f) > MaxUploadSize THEN TooBigMsg
  ELSE Null

\* handleFileSelect up to its first await
handleFileSelect(f) ==
  /\ Len(analyses) < MaxCalls
  /\ file' = f
  /\ isAnalyzing' = TRUE
  /\ error' = Null
  /\ report' = JNull
  /\ analyses' = Append(analyses, [f |-> f, pc |-> "read"])
  /\ UNCHANGED <<activeTab, hasApiKey, isCheckingKey, fileBase64>>

\* setError(null), then validateAndUpload of the first file of the event, if any;
\* once file is set App no longer renders FileUpload and its state is gone
UploadEvent(files, dragging) ==
  /\ FileUploadShown
  /\ IF Len(files) > 0 /\ validateAndUpload(files[1]) = Null
     THEN /\ handleFileSelect(files[1])
          /\ uploadError' = Null
          /\ isDragging' = FALSE
     ELSE /\ uploadError' = IF Len(files) > 0 THEN validateAndUpload(files[1]) ELSE Null
          /\ isDragging' = dragging
          /\ UNCHANGED <<appVars, analyses>>
  /\ UNCHANGED <<keyVars, dashVars, genVars, editVars>>

handleDragOver ==
  /\ FileUploadShown
  /\ isDragging' = TRUE
  /\ UNCHANGED <<appVars, keyVars, analyses, uploadError, dashVars, genVars, editVars>>

handleDragLeave ==
  /\ FileUploadShown
  /\ isDragging' = FALSE
  /\ UNCHANGED <<appVars, keyVars, analyses, uploadError, dashVars, genVars, editVars>>

handleDrop(files) ==
  /\ FileUploadShown
  /\ UploadEvent(files, FALSE)

handleFileInput(files) ==
  /\ FileUploadShown
  /\ UploadEvent(files, isDragging)

\* fileToBase64 resolved: the base64 is stored and analyzePdf is called
fileReadResolved(i) ==
  /\ i \in DOMAIN analyses /\ analyses[i].pc = "read"
  /\ fileBase64' = SplitComma1(ReadAsDataURL(analyses[i].f))
  /\ analyses' = [analyses EXCEPT ![i].pc = "call"]
  /\ UNCHANGED <<activeTab, hasApiKey, isCheckingKey, file, isAnalyzing, report, error,
                 keyVars, uploadVars, dashVars, genVars, editVars>>

\* a catch that shows the error and starts the same upload over again
AnalysisCatchRetries(i, msg) ==
  /\ error' = MessageOr(msg, UnexpectedMsg)
  /\ analyses' = [analyses EXCEPT ![i].pc = "read"]
  /\ UNCHANGED <<activeTab, hasApiKey, isCheckingKey, file, fileBase64, isAnalyzing, report,
                 keyVars, uploadVars, dashVars, genVars, editVars>>

\* a catch that sets the error and ends the analysis but keeps the file
AnalysisCatchKeepsFile(i, msg) ==
  /\ error' = MessageOr(msg, UnexpectedMsg)
  /\ isAnalyzing' = FALSE
  /\ analyses' = RemoveAt(analyses, i)
  /\ UNCHANGED <<activeTab, hasApiKey, isCheckingKey, file, fileBase64, report,
                 keyVars, uploadVars, dashVars, genVars, editVars>>

\* catch and finally of handleFileSelect
AnalysisCatch(i, msg) ==
  /\ error' = MessageOr(msg, UnexpectedMsg)
  /\ file' = Null
  /\ fileBase64' = Null
  /\ isAnalyzing' = FALSE
  /\ analyses' = RemoveAt(analyses, i)
  /\ UNCHANGED <<activeTab, hasApiKey, isCheckingKey, report, keyVars, uploadVars,
                 genVars, editVars>>
  /\ DashboardAfter(report, Null, FALSE, activeTab)

\* fileToBase64 rejected with the reader's error event, which has no message
fileReadRejected(i) ==
  /\ i \in DOMAIN analyses /\ analyses[i].pc = "read"
  /\ AnalysisCatch(i, Null)

\* analysisSettled showing an empty report, and keeping the file, when analyzePdf threw
analysisSettledKeepsPartial(i, reply) ==
  /\ i \in DOMAIN analyses /\ analyses[i].pc = "call"
  /\ LET res == AnalyzePdf(reply)
     IN IF res.ok
        THEN /\ report' = res.v
             /\ isAnalyzing' = FALSE
             /\ analyses' = RemoveAt(analyses, i)
             /\ UNCHANGED <<activeTab, hasApiKey, isCheckingKey, file, fileBase64, error,
                            keyVars, uploadVars, genVars, editVars>>
             /\ DashboardAfter(res.v, file, FALSE, activeTab)
        ELSE /\ report' = JObj(NoProps)
             /\ error' = MessageOr(res.msg, UnexpectedMsg)
             /\ isAnalyzing' = FALSE
             /\ analyses' = RemoveAt(analyses, i)
             /\ UNCHANGED <<activeTab, hasApiKey, isCheckingKey, file, fileBase64,
                            keyVars, uploadVars, genVars, editVars>>
             /\ DashboardAfter(JObj(NoProps), file, FALSE, activeTab)

\* analyzePdf settled for the reply of the remote call
analysisSettled(i, reply) ==
  /\ i \in DOMAIN analyses /\ analyses[i].pc = "call"
  /\ LET res == AnalyzePdf(reply)
     IN IF res.ok
        THEN /\ report' = res.v
             /\ isAnalyzing' = FALSE
             /\ analyses' = RemoveAt(analyses, i)
             /\ UNCHANGED <<activeTab, hasApiKey, isCheckingKey, file, fileBase64, error,
                            keyVars, uploadVars, genVars, editVars>>
             /\ DashboardAfter(res.v, file, FALSE, activeTab)
        ELSE AnalysisCatch(i, res.msg)

\* handleReset leaving the base64 payload of the file in place
handleResetKeepsBase64 ==
  /\ DashboardUsable \/ ErrorPanelShown
  /\ file' = Null
  /\ report' = JNull
  /\ error' = Null
  /\ DashboardUnmount
  /\ UNCHANGED <<activeTab, hasApiKey, isCheckingKey, isAnalyzing, fileBase64, keyVars, analyses,
                 uploadVars, genVars, editVars>>

\* Back on the dashboard, Try Again on the error panel
handleReset ==
  /\ DashboardUsable \/ ErrorPanelShown
  /\ file' = Null
  /\ fileBase64' = Null
  /\ report' = JNull
  /\ error' = Null
  /\ DashboardUnmount
  /\ UNCHANGED <<activeTab, hasApiKey, isCheckingKey, isAnalyzing, keyVars, analyses,
                 uploadVars, genVars, editVars>>

\* ------------------------------------------------------------------------
\* Replies of the image calls, and generateImage / editImage
\* ------------------------------------------------------------------------
NoImageGeneratedMsg == "No image generated in response."
NoImageEditedMsg == "No edited image generated in response."
GenerateFallbackMsg == "Failed to generate image"
EditFallbackMsg == "Failed to edit image"
NetworkMsg == "fetch failed"

\* a part of the reply content: inline image data or text
InlinePart(data) == [inline |-> TRUE, data |-> data]
TextPart == [inline |-> FALSE, data |-> ""]
\* a reply: rejected with an error (its message, Null for none), or a response
\* whose candidates[0].content.parts is absent (hasParts = FALSE) or a list
ImageReject(msg) == [kind |-> "reject", msg |-> msg, hasParts |-> FALSE, parts |-> <<>>]
ImageResponse(hasParts, parts) == [kind |-> "response", msg |-> Null, hasParts |-> hasParts, parts |-> parts]

\* the loop over the parts returning the last part with inlineData instead of the first
LastInline(parts, i) ==
  IF \E k \in i .. Len(parts) : parts[k].inline
  THEN CHOOSE k \in i .. Len(parts) :
         parts[k].inline /\ \A j \in (k + 1) .. Len(parts) : ~parts[j].inline
  ELSE 0

RECURSIVE FirstInline(_, _)
\* index of the first part with inlineData at or after i, 0 when there is none
FirstInline(parts, i) ==
  IF i > Len(parts) THEN 0
  ELSE IF parts[i].inline THEN i ELSE FirstInline(parts, i + 1)

\* the common body of generateImage and editImage; the catch rethrows the error
\* it caught
ImageFromReply(reply, noImageMsg) ==
  IF reply.kind = "reject" THEN [ok |-> FALSE, uri |-> NoImage, msg |-> reply.msg]
  ELSE IF reply.hasParts /\ FirstInline(reply.parts, 1) > 0
       THEN [ok |-> TRUE,
             uri |-> <<"data:image/png;base64", reply.parts[FirstInline(reply.parts, 1)].data>>,
             msg |-> Null]
       ELSE [ok |-> FALSE, uri |-> NoImage, msg |-> noImageMsg]
generateImage(reply) == ImageFromReply(reply, NoImageGeneratedMsg)
editImage(reply) == ImageFromReply(reply, NoImageEditedMsg)

\* the image the remote returns for an edit of the payload it was sent
EditedData(data) ==
  CASE data = "b64(a.png)" -> "edited(a.png)"
    [] data = "b64(b.jpg)" -> "edited(b.jpg)"
    [] OTHER -> "edited(?)"

FailureReplies ==
  {ImageReject(NetworkMsg), ImageReject(Null), ImageResponse(FALSE, <<>>),
   ImageResponse(TRUE, <<>>), ImageResponse(TRUE, <<TextPart>>)}
GenerateReplies ==
  FailureReplies \cup
  {ImageResponse(TRUE, <<InlinePart("png1")>>),
   ImageResponse(TRUE, <<TextPart, InlinePart("png2"), InlinePart("png1")>>)}
EditReplies(data) ==
  FailureReplies \cup
  {ImageResponse(TRUE, <<InlinePart(EditedData(data))>>),
   ImageResponse(TRUE, <<TextPart, InlinePart(EditedData(data))>>)}

\* ------------------------------------------------------------------------
\* ImageGenerator
\* ------------------------------------------------------------------------
Sizes == {"1K", "2K", "4K"}

setPrompt(p) ==
  /\ GeneratorMounted
  /\ genPrompt' = p
  /\ UNCHANGED <<appVars, keyVars, analyses, uploadVars, dashVars, editVars,
                 size, isGenerating, generatedImage, genError, genCalls>>

setSize(s) ==
  /\ GeneratorMounted
  /\ size' = s
  /\ UNCHANGED <<appVars, keyVars, analyses, uploadVars, dashVars, editVars,
                 genPrompt, isGenerating, generatedImage, genError, genCalls>>

GenerateDisabled == isGenerating \/ Trim(genPrompt) = ""

\* handleGenerate without the test of the prompt at its head
handleGenerateNoPromptTest ==
  /\ isGenerating' = TRUE
  /\ genError' = Null
  /\ generatedImage' = NoImage
  /\ genCalls' = Append(genCalls, [live |-> TRUE, prompt |-> genPrompt, size |-> size])
  /\ UNCHANGED <<genPrompt, size>>

\* handleGenerate leaving the previous image on display while the request runs
handleGenerateKeepsImage ==
  IF Trim(genPrompt) = ""
  THEN UNCHANGED genVars
  ELSE /\ isGenerating' = TRUE
       /\ genError' = Null
       /\ genCalls' = Append(genCalls, [live |-> TRUE, prompt |-> genPrompt, size |-> size])
       /\ UNCHANGED <<genPrompt, size, generatedImage>>

\* handleGenerate up to its await
handleGenerate ==
  IF Trim(genPrompt) = ""
  THEN UNCHANGED genVars
  ELSE /\ isGenerating' = TRUE
       /\ genError' = Null
       /\ generatedImage' = NoImage
       /\ genCalls' = Append(genCalls, [live |-> TRUE, prompt |-> genPrompt, size |-> size])
       /\ UNCHANGED <<genPrompt, size>>

\* the Generate Image button
clickGenerate ==
  /\ GeneratorMounted
  /\ ~GenerateDisabled
  /\ Len(genCalls) < MaxCalls
  /\ handleGenerate
  /\ UNCHANGED <<appVars, keyVars, analyses, uploadVars, dashVars, editVars>>

\* generateImage settled; the rest of handleGenerate runs, with effect only
\* while the instance that started the call is still mounted
generateSettled(i, reply) ==
  /\ i \in DOMAIN genCalls
  /\ genCalls' = RemoveAt(genCalls, i)
  /\ LET res == generateImage(reply)
     IN IF ~genCalls[i].live
        THEN UNCHANGED <<genPrompt, size, isGenerating, generatedImage, genError>>
        ELSE /\ generatedImage' = IF res.ok THEN res.uri ELSE generatedImage
             /\ genError' = IF res.ok THEN genError ELSE MessageOr(res.msg, GenerateFallbackMsg)
             /\ isGenerating' = FALSE
             /\ UNCHANGED <<genPrompt, size>>
  /\ UNCHANGED <<appVars, keyVars, analyses, uploadVars, dashVars, editVars>>

\* ------------------------------------------------------------------------
\* ImageEditor
\* ------------------------------------------------------------------------
NotImageMsg == "Please upload an image file (PNG, JPG)."

\* handleFileSelect of the editor's upload area
editorFileSelect(files) ==
  /\ EditorMounted
  /\ originalFile = Null
  /\ IF Len(files) = 0
     THEN UNCHANGED editVars
     ELSE IF ~StartsWithImage(FileType(files[1]))
          THEN /\ editError' = NotImageMsg
               /\ UNCHANGED <<originalFile, previewUrl, editedImage, editPrompt, isProcessing, editCalls>>
          ELSE /\ originalFile' = files[1]
               /\ previewUrl' = files[1]
               /\ editedImage' = NoImage
               /\ editError' = Null
               /\ UNCHANGED <<editPrompt, isProcessing, editCalls>>
  /\ UNCHANGED <<appVars, keyVars, analyses, uploadVars, dashVars, genVars>>

setEditPrompt(p) ==
  /\ EditorMounted
  /\ originalFile # Null
  /\ editPrompt' = p
  /\ UNCHANGED <<appVars, keyVars, analyses, uploadVars, dashVars, genVars,
                 originalFile, previewUrl, editedImage, isProcessing, editError, editCalls>>

EditDisabled == isProcessing \/ Trim(editPrompt) = ""

\* handleEdit up to its first await
handleEdit ==
  IF originalFile = Null \/ Trim(editPrompt) = ""
  THEN UNCHANGED editVars
  ELSE /\ isProcessing' = TRUE
       /\ editError' = Null
       /\ editCalls' = Append(editCalls, [live |-> TRUE, src |-> originalFile,
                                          prompt |-> editPrompt, pc |-> "read"])
       /\ UNCHANGED <<originalFile, previewUrl, editedImage, editPrompt>>

\* the Apply Edit button
clickEdit ==
  /\ EditorMounted
  /\ originalFile # Null
  /\ ~EditDisabled
  /\ Len(editCalls) < MaxCalls
  /\ handleEdit
  /\ UNCHANGED <<appVars, keyVars, analyses, uploadVars, dashVars, genVars>>

\* fileToBase64 resolved: editImage is called with the payload after the comma
editReadResolved(i) ==
  /\ i \in DOMAIN editCalls /\ editCalls[i].pc = "read"
  /\ editCalls' = [editCalls EXCEPT ![i].pc = "call"]
  /\ UNCHANGED <<appVars, keyVars, analyses, uploadVars, dashVars, genVars,
                 originalFile, previewUrl, editedImage, editPrompt, isProcessing, editError>>

\* catch and finally of handleEdit
EditCatch(i, msg) ==
  /\ editCalls' = RemoveAt(editCalls, i)
  /\ IF ~editCalls[i].live
     THEN UNCHANGED <<originalFile, previewUrl, editedImage, editPrompt, isProcessing, editError>>
     ELSE /\ editError' = MessageOr(msg, EditFallbackMsg)
          /\ isProcessing' = FALSE
          /\ UNCHANGED <<originalFile, previewUrl, editedImage, editPrompt>>
  /\ UNCHANGED <<appVars, keyVars, analyses, uploadVars, dashVars, genVars>>

editReadRejected(i) ==
  /\ i \in DOMAIN editCalls /\ editCalls[i].pc = "read"
  /\ EditCatch(i, Null)

\* editImage settled for a reply to the request that carried the call's image
editSettled(i, reply) ==
  /\ i \in DOMAIN editCalls /\ editCalls[i].pc = "call"
  /\ reply \in EditReplies(SplitComma1(ReadAsDataURL(editCalls[i].src)))
  /\ LET res == editImage(reply)
     IN IF res.ok
        THEN /\ editCalls' = RemoveAt(editCalls, i)
             /\ IF ~editCalls[i].live
                THEN UNCHANGED <<originalFile, previewUrl, editedImage, editPrompt, isProcessing, editError>>
                ELSE /\ editedImage' = res.uri
                     /\ isProcessing' = FALSE
                     /\ UNCHANGED <<originalFile, previewUrl, editPrompt, editError>>
             /\ UNCHANGED <<appVars, keyVars, analyses, uploadVars, dashVars, genVars>>
        ELSE EditCatch(i, res.msg)

\* the Reset button of the editor toolbar
reset ==
  /\ EditorMounted
  /\ originalFile # Null
  /\ originalFile' = Null
  /\ previewUrl' = Null
  /\ editedImage' = NoImage
  /\ editPrompt' = ""
  /\ editError' = Null
  /\ UNCHANGED <<appVars, keyVars, analyses, uploadVars, dashVars, genVars,
                 isProcessing, editCalls>>

\* ------------------------------------------------------------------------
\* Specifications
\* ------------------------------------------------------------------------
GateNext ==
  \/ \E outcome \in {"true", "false", "throws", "unavailable"} : checkApiKey(outcome)
  \/ handleSelectKey
  \/ \E resolved \in BOOLEAN : selectKeySettled(resolved)
  \/ \E t \in Tabs : setActiveTab(t)

FileLists == {<<>>} \cup {<<f>> : f \in Files}

\* the preflight session with its dashboard
Next ==
  \/ GateNext
  \/ handleDragOver
  \/ handleDragLeave
  \/ \E files \in FileLists : handleDrop(files)
  \/ \E files \in FileLists : handleFileInput(files)
  \/ \E i \in 1 .. MaxCalls : fileReadResolved(i)
  \/ \E i \in 1 .. MaxCalls : fileReadRejected(i)
  \/ \E i \in 1 .. MaxCalls, reply \in AnalysisReplies : analysisSettled(i, reply)
  \/ handleReset
  \/ \E st \in Statuses, idx \in 0 .. 2 : onMouseEnter(st, idx)
  \/ \E st \in Statuses, idx \in 0 .. 2 : onMouseLeave(st, idx)
  \/ \E st \in Statuses : toggleSection(st)
  \/ PrevPage
  \/ NextPage
  \/ loadPdf
  \/ \E n \in 1 .. MaxPages : loadPdfResolved(n)
  \/ loadPdfRejected
Spec == Init /\ [][Next]_vars

\* the image generator behind the gate and the tabs
NextGen ==
  \/ GateNext
  \/ \E p \in PromptInputs : setPrompt(p)
  \/ \E s \in Sizes : setSize(s)
  \/ clickGenerate
  \/ \E i \in 1 .. MaxCalls, reply \in GenerateReplies : generateSettled(i, reply)
SpecGen == Init /\ [][NextGen]_vars

\* the image editor behind the gate and the tabs
NextEdit ==
  \/ GateNext
  \/ \E files \in FileLists : editorFileSelect(files)
  \/ \E p \in PromptInputs : setEditPrompt(p)
  \/ clickEdit
  \/ \E i \in 1 .. MaxCalls : editReadResolved(i)
  \/ \E i \in 1 .. MaxCalls : editReadRejected(i)
  \/ \E i \in 1 .. MaxCalls, f \in ImageFiles :
        \E reply \in EditReplies(FileData(f)) : editSettled(i, reply)
  \/ reset
SpecEdit == Init /\ [][NextEdit]_vars

\* the two image surfaces behind the gate and the tabs
NextImages ==
  \/ NextGen
  \/ NextEdit
SpecImages == Init /\ [][NextImages]_vars

\* the preflight session when every file read and every remote call settles
ReadSettles == \E i \in 1 .. MaxCalls : fileReadResolved(i) \/ fileReadRejected(i)
CallSettles == \E i \in 1 .. MaxCalls, reply \in AnalysisReplies : analysisSettled(i, reply)
SpecFair == Init /\ [][Next]_vars /\ WF_vars(ReadSettles) /\ WF_vars(CallSettles)

\* handleGenerate and handleEdit called in whatever state their component is
\* in, not only through their buttons
callHandleGenerate ==
  /\ GeneratorMounted
  /\ Len(genCalls) < MaxCalls
  /\ handleGenerate
  /\ UNCHANGED <<appVars, keyVars, analyses, uploadVars, dashVars, editVars>>
callHandleEdit ==
  /\ EditorMounted
  /\ Len(editCalls) < MaxCalls
  /\ handleEdit
  /\ UNCHANGED <<appVars, keyVars, analyses, uploadVars, dashVars, genVars>>
NextHandlers ==
  \/ GateNext
  \/ \E p \in PromptInputs : setPrompt(p)
  \/ \E s \in Sizes : setSize(s)
  \/ callHandleGenerate
  \/ \E i \in 1 .. MaxCalls, reply \in GenerateReplies : generateSettled(i, reply)
  \/ \E files \in FileLists : editorFileSelect(files)
  \/ \E p \in PromptInputs : setEditPrompt(p)
  \/ callHandleEdit
  \/ \E i \in 1 .. MaxCalls : editReadResolved(i)
  \/ \E i \in 1 .. MaxCalls : editReadRejected(i)
  \/ \E i \in 1 .. MaxCalls, f \in ImageFiles :
        \E reply \in EditReplies(FileData(f)) : editSettled(i, reply)
  \/ reset
SpecHandlers == Init /\ [][NextHandlers]_vars

\* the three surfaces that call the remote service, side by side, with one
\* accepted and one refused file and four kinds of analysis reply
NextCalls ==
  \/ GateNext
  \/ \E files \in {<<"small.pdf">>, <<"big.pdf">>} : handleFileInput(files)
  \/ \E i \in 1 .. MaxCalls : fileReadResolved(i)
  \/ \E i \in 1 .. MaxCalls : fileReadRejected(i)
  \/ \E i \in 1 .. MaxCalls, reply \in {Reject, NoText, Response(Ser(JNull)), Response(Ser(Report0))} :
        analysisSettled(i, reply)
  \/ handleReset
  \/ loadPdf
  \/ \E n \in 1 .. MaxPages : loadPdfResolved(n)
  \/ loadPdfRejected
  \/ NextGen
  \/ NextEdit
SpecCalls == Init /\ [][NextCalls]_vars

\* ------------------------------------------------------------------------
\* Properties
\* ------------------------------------------------------------------------
HasRequiredFields(rep) == rep.t = "obj" /\ RequiredFields \subseteq DOMAIN rep.o
NonEmptyStr(v) == v.t = "str" /\ v.s # ""
ValidCheck(c) ==
  /\ c.t = "obj"
  /\ Get(c, "category").t = "str" /\ Get(c, "category").s \in Categories
  /\ Get(c, "status").t = "str" /\ Get(c, "status").s \in Statuses
  /\ NonEmptyStr(Get(c, "title")) /\ NonEmptyStr(Get(c, "description"))
ValidEnums(rep) ==
  /\ Get(rep, "finalVerdict").t = "str" /\ Get(rep, "finalVerdict").s \in Verdicts
  /\ Get(rep, "checks").t = "arr"
  /\ \A i \in DOMAIN Get(rep, "checks").a : ValidCheck(Get(rep, "checks").a[i])

\* C1: a reply whose JSON object lacks a required top-level field never becomes
\* the report: an object held in report has overallScore, summary, finalVerdict,
\* specs and checks.
C1_ReportHasRequiredFields == report.t = "obj" => HasRequiredFields(report)

\* C2: every report exposed to the UI has its finalVerdict in the verdict set
\* and, for every check, category and status in their sets and non-empty title
\* and description.
C2_ReportEnumsValid == HasRequiredFields(report) => ValidEnums(report)

\* the step is the successful completion of an analysis that hands the whole
\* parsed reply to report
CompletesWithParsedReply ==
  \E i \in DOMAIN analyses, reply \in AnalysisReplies :
    /\ analyses[i].pc = "call"
    /\ reply.kind = "response" /\ reply.hasText
    /\ JSONParse(reply.text).ok
    /\ report' = JSONParse(reply.text).v
    /\ analyses' = RemoveAt(analyses, i)
    /\ ~isAnalyzing'
\* the step ends an analysis in its catch
AnalysisFails == Len(analyses') < Len(analyses) /\ error' # Null
DashboardMounted == pdfUrl # Null

\* C3: report goes from null to non-null only in the one step that completes an
\* analysis successfully, and then it is the complete parsed reply; a failing
\* analysis leaves report null; the dashboard is on screen only while report
\* and file are non-null and no analysis runs.
C3_NoPartialReport ==
  /\ [](DashboardMounted => report.t # "null" /\ file # Null /\ ~isAnalyzing)
  /\ [][/\ (report.t = "null" /\ report'.t # "null") => CompletesWithParsedReply
        /\ AnalysisFails => report'.t = "null"]_vars
C3_Witness == DashboardMounted /\ HasRequiredFields(report) /\ pdfDoc.loaded

\* C4: at most one analysis is outstanding, and the upload control exists only
\* while none is.
C4_OneAnalysis ==
  /\ Len(analyses) <= 1
  /\ FileUploadShown => Len(analyses) = 0 /\ ~isAnalyzing
  /\ isAnalyzing <=> Len(analyses) = 1
C4_Witness ==
  Len(analyses) = 1 /\ analyses[1].pc = "call" /\ activeTab = "PREFLIGHT" /\ isDragging = FALSE

RemoteCalls(calls) == {i \in DOMAIN calls : calls[i].pc = "call"}
\* C5: at most one remote call of the generator and at most one of the editor
\* is outstanding.
C5_OneCallPerSurface ==
  /\ Len(genCalls) <= 1
  /\ Cardinality(RemoteCalls(editCalls)) <= 1

\* C6: the completion of an analysis while another tab is active changes
\* neither report nor error.
C6_StaleCompletionIgnored ==
  [][(/\ activeTab # "PREFLIGHT"
      /\ \E i \in DOMAIN analyses : analyses[i].pc = "call" /\ analyses' = RemoveAt(analyses, i))
       => (report' = report /\ error' = error)]_vars

\* C7: an edited image on display was produced from the source image on display.
C7_EditedFromCurrent ==
  (editedImage # NoImage /\ originalFile # Null)
    => editedImage[2] = EditedData(FileData(originalFile))

\* the check item that has the focus, when one has
FocusedItem == checksByStatus(report, activeItemIndex.sec)[activeItemIndex.idx + 1]
HasFocus == DashboardUsable /\ activeItemIndex # NoItem
InEnumeration(zone) == zone.t = "str" /\ zone.s \in ZoneNames
FullPageBox == [shown |-> TRUE, x |-> 0, y |-> 0, w |-> 3, h |-> 3]

\* C8 as stated: focusing a check whose visualZone is absent or outside the
\* enumeration shows no overlay rectangle.
C8_NoOverlayForAbsentOrUnknown ==
  (HasFocus /\ ~InEnumeration(Get(FocusedItem, "visualZone"))) => ~Overlay.shown

\* C8 amended: focusing a check whose visualZone is a truthy value outside the
\* enumeration shows no overlay rectangle; focusing a check whose visualZone is
\* absent or falsy shows the overlay of the whole page once the preview is loaded.
C8_OverlayForAbsentOrUnknown ==
  HasFocus =>
    LET zone == Get(FocusedItem, "visualZone")
    IN /\ (Truthy(zone) /\ ~InEnumeration(zone)) => ~Overlay.shown
       /\ ~Truthy(zone) => Overlay = (IF pdfDoc.loaded THEN FullPageBox ELSE NoBox)
C8_Witness ==
  HasFocus /\ Get(FocusedItem, "visualZone").t = "undefined" /\ pdfDoc.loaded /\ Overlay.shown

\* row and column a grid zone's name denotes
ZoneRow(z) ==
  CASE z \in {"TOP_LEFT", "TOP_CENTER", "TOP_RIGHT"} -> 0
    [] z \in {"MIDDLE_LEFT", "CENTER", "MIDDLE_RIGHT"} -> 1
    [] OTHER -> 2
ZoneCol(z) ==
  CASE z \in {"TOP_LEFT", "MIDDLE_LEFT", "BOTTOM_LEFT"} -> 0
    [] z \in {"TOP_CENTER", "CENTER", "BOTTOM_CENTER"} -> 1
    [] OTHER -> 2
CellBox(z) ==
  IF z = "FULL_PAGE" THEN FullPageBox
  ELSE [shown |-> TRUE, x |-> ZoneCol(z), y |-> ZoneRow(z), w |-> 1, h |-> 1]

\* C9: the overlay of a zone of the enumeration is the grid cell its name
\* denotes (one third wide and high, origin top-left), the whole page for
\* FULL_PAGE, whatever else the dashboard's state is.
C9_ZoneCell ==
  (DashboardUsable /\ pdfDoc.loaded /\ InEnumeration(activeZone)) => Overlay = CellBox(activeZone.s)
C9_Witness == DashboardUsable /\ pdfDoc.loaded /\ IsStr(activeZone, "BOTTOM_RIGHT") /\ pageNum = 2

InsidePage(box) ==
  /\ 0 <= box.x /\ 0 <= box.y /\ box.w > 0 /\ box.h > 0
  /\ box.x + box.w <= 3 /\ box.y + box.h <= 3
DisjointInteriors(a, b) ==
  \/ a.x + a.w <= b.x \/ b.x + b.w <= a.x
  \/ a.y + a.h <= b.y \/ b.y + b.h <= a.y

\* C10: the overlay of a zone of the enumeration lies inside the page, and the
\* overlay of a grid zone shares no interior point with the rectangle of any
\* other grid zone.
C10_InsideAndDisjoint ==
  (DashboardUsable /\ pdfDoc.loaded /\ InEnumeration(activeZone)) =>
    /\ Overlay.shown /\ InsidePage(Overlay)
    /\ activeZone.s \in GridZones =>
         \A z \in GridZones \ {activeZone.s} :
           DisjointInteriors(Overlay, OverlayBox(getZoneStyles(JStr(z))))
C10_Witness == DashboardUsable /\ pdfDoc.loaded /\ IsStr(activeZone, "BOTTOM_CENTER") /\ Overlay.shown

\* renderCheckItem's isActive: the item carries the emphasis classes
isActive(st, idx) == activeItemIndex = [sec |-> st, idx |-> idx]
\* the check items on screen that are emphasized
Emphasized == {x \in Statuses \X (0 .. 2) : ItemRendered(x[1], x[2]) /\ isActive(x[1], x[2])}

\* C11: under hover-enter and hover-leave events at most one check item is
\* emphasized and it is the item entered last; the active zone is that item's
\* visualZone and the overlay its rectangle (the center cell for CENTER); the
\* active zone is null exactly when no item has the focus; the focus is
\* changed by no event other than an enter, a leave or the closing of the
\* dashboard, so two checks with the same zone are told apart by their index.
C11_OneEmphasizedItem ==
  /\ [](DashboardUsable =>
          /\ Cardinality(Emphasized) <= 1
          /\ (activeZone = JNull) <=> (activeItemIndex = NoItem)
          /\ activeItemIndex = NoItem => Emphasized = {}
          /\ (activeItemIndex # NoItem /\ expandedSections[activeItemIndex.sec])
               => Emphasized = {<<activeItemIndex.sec, activeItemIndex.idx>>}
          /\ (HasFocus /\ InEnumeration(Get(FocusedItem, "visualZone")))
               => /\ activeZone = Get(FocusedItem, "visualZone")
                  /\ pdfDoc.loaded => Overlay = CellBox(activeZone.s))
  /\ [][/\ \A st \in Statuses, idx \in 0 .. 2 :
             onMouseEnter(st, idx) => activeItemIndex' = [sec |-> st, idx |-> idx]
        /\ \A st \in Statuses, idx \in 0 .. 2 :
             onMouseLeave(st, idx) => activeItemIndex' = NoItem /\ activeZone' = JNull
        /\ activeItemIndex' # activeItemIndex =>
             \/ \E st \in Statuses, idx \in 0 .. 2 : onMouseEnter(st, idx) \/ onMouseLeave(st, idx)
             \/ handleReset]_vars
\* the WARN item has the focus in a report whose FAIL item has the same zone CENTER
C11_Witness ==
  /\ DashboardUsable /\ pdfDoc.loaded
  /\ Len(checksByStatus(report, "FAIL")) > 0
  /\ IsStr(Get(checksByStatus(report, "FAIL")[1], "visualZone"), "CENTER")
  /\ activeItemIndex = [sec |-> "WARN", idx |-> 0]
  /\ IsStr(activeZone, "CENTER") /\ Overlay = CellBox("CENTER")
  /\ Emphasized = {<<"WARN", 0>>}

\* a PDF of at most 20 MB
AcceptableUpload(f) == FileType(f) = "application/pdf" /\ FileSize(f) <= 20 * 1024 * 1024

\* C12: a drop or a file-input change with file f starts an analysis of f if
\* and only if f is a PDF of at most 20*1024*1024 bytes; otherwise the upload
\* control shows a message and file, fileBase64, report, isAnalyzing and the
\* pending analyses stay as they were.  A 25 MB PDF is rejected, a PDF of
\* exactly 20*1024*1024 bytes is accepted, and only acceptable files are ever
\* under analysis.
C12_UploadValidated ==
  /\ [](/\ \A i \in DOMAIN analyses : AcceptableUpload(analyses[i].f)
        /\ FileSize("big.pdf") = 25 * 1024 * 1024 /\ validateAndUpload("big.pdf") # Null
        /\ FileSize("limit.pdf") = 20 * 1024 * 1024 /\ validateAndUpload("limit.pdf") = Null)
  /\ [][\A files \in FileLists :
          (Len(files) > 0 /\ (handleDrop(files) \/ handleFileInput(files))) =>
            IF AcceptableUpload(files[1])
            THEN /\ analyses' = Append(analyses, [f |-> files[1], pc |-> "read"])
                 /\ file' = files[1] /\ isAnalyzing' /\ uploadError' = Null
            ELSE /\ uploadError' \in {NotPdfMsg, TooBigMsg}
                 /\ UNCHANGED <<file, fileBase64, report, isAnalyzing, error, analyses>>]_vars
\* the PDF of exactly the limit is with the remote service
C12_Witness ==
  /\ file = "limit.pdf" /\ Len(analyses) = 1 /\ analyses[1].pc = "call"
  /\ fileBase64 = FileData("limit.pdf") /\ uploadError = Null

\* the reply is a response none of whose parts carries inline data
NoInlinePart(reply) ==
  reply.kind = "response" /\ (~reply.hasParts \/ \A k \in DOMAIN reply.parts : ~reply.parts[k].inline)
\* the data URI of the first inline part of a response that has one
FirstInlineUri(reply) ==
  LET k == CHOOSE k \in DOMAIN reply.parts :
             reply.parts[k].inline /\ \A j \in 1 .. (k - 1) : ~reply.parts[j].inline
  IN <<"data:image/png;base64", reply.parts[k].data>>
ImageRepliesChecked == GenerateReplies \cup UNION {EditReplies(FileData(f)) : f \in ImageFiles}

\* C13: generateImage and editImage return the data URI of the first part
\* with inline data and throw when the response has no such part; the handler
\* that made the call then stores the URI, or on the throw sets its error and
\* stores no image from the reply.
C13_FirstInlinePartOrError ==
  /\ [](\A reply \in ImageRepliesChecked :
          /\ reply.kind = "response" /\ ~NoInlinePart(reply) =>
               /\ generateImage(reply).ok /\ generateImage(reply).uri = FirstInlineUri(reply)
               /\ editImage(reply).ok /\ editImage(reply).uri = FirstInlineUri(reply)
          /\ NoInlinePart(reply) =>
               /\ ~generateImage(reply).ok /\ generateImage(reply).msg = NoImageGeneratedMsg
               /\ ~editImage(reply).ok /\ editImage(reply).msg = NoImageEditedMsg)
  /\ [][/\ \A i \in 1 .. MaxCalls, reply \in GenerateReplies :
             (generateSettled(i, reply) /\ genCalls[i].live) =>
               /\ NoInlinePart(reply) => genError' = NoImageGeneratedMsg /\ generatedImage' = NoImage
               /\ (reply.kind = "response" /\ ~NoInlinePart(reply)) =>
                    generatedImage' = FirstInlineUri(reply) /\ genError' = genError
        /\ \A i \in 1 .. MaxCalls, reply \in ImageRepliesChecked :
             (editSettled(i, reply) /\ editCalls[i].live) =>
               /\ NoInlinePart(reply) => editError' = NoImageEditedMsg /\ editedImage' = editedImage
               /\ (reply.kind = "response" /\ ~NoInlinePart(reply)) =>
                    editedImage' = FirstInlineUri(reply) /\ editError' = editError]_vars
\* the generator shows the error of a reply without image, and no image
C13_Witness ==
  /\ GeneratorMounted /\ genError = NoImageGeneratedMsg /\ generatedImage = NoImage
  /\ ~isGenerating /\ Len(genCalls) = 0

\* C14: when an edit request of the mounted editor fails on a response without
\* inline image part, originalFile and previewUrl are unchanged and editedImage
\* is null afterwards, whatever happened before the request.
C14_FailedEditShowsNoResult ==
  [][\A i \in 1 .. MaxCalls, reply \in ImageRepliesChecked :
       (editSettled(i, reply) /\ editCalls[i].live /\ NoInlinePart(reply)) =>
         /\ originalFile' = originalFile /\ previewUrl' = previewUrl
         /\ editedImage' = NoImage]_vars

\* C15: the message the generator shows after a failed remote call is the one
\* message every failure of generateImage leads to, whatever its cause
\* (rejected request, response without candidates or parts, response with
\* text parts only).
C15_OneMessagePerOperation ==
  genError # Null =>
    \A reply \in FailureReplies :
      MessageOr(generateImage(reply).msg, GenerateFallbackMsg) = genError

\* number of remote requests of a surface that are with the service
Requests(calls) == Cardinality(RemoteCalls(calls))

\* C16: the accepted actions of a surface that have not finished grow by one
\* with a user action (an accepted upload, a Generate click, an Apply Edit
\* click) and with nothing else; the requests in flight grow by one when the
\* file read of such an action succeeds (with the click itself for the
\* generator) and with nothing else, so an action issues one request after a
\* successful read and none after a failed one; a request that ends, failed or
\* not, leaves together with its action: it is not issued again and nothing
\* is queued behind it.
C16_OneRequestPerAction ==
  [][/\ Len(analyses') > Len(analyses) =>
          /\ Len(analyses') = Len(analyses) + 1 /\ Requests(analyses') = Requests(analyses)
          /\ \E files \in FileLists : handleFileInput(files) \/ handleDrop(files)
     /\ Requests(analyses') > Requests(analyses) =>
          /\ Len(analyses') = Len(analyses) /\ Requests(analyses') = Requests(analyses) + 1
          /\ \E i \in 1 .. MaxCalls : fileReadResolved(i)
     /\ Requests(analyses') < Requests(analyses) =>
          Len(analyses') = Len(analyses) - 1 /\ Requests(analyses') = Requests(analyses) - 1
     /\ Len(analyses') < Len(analyses) => Len(analyses') = Len(analyses) - 1
     /\ \A i \in 1 .. MaxCalls :
          /\ fileReadResolved(i) => Requests(analyses') = Requests(analyses) + 1
          /\ fileReadRejected(i) => Requests(analyses') = Requests(analyses)
     /\ Len(genCalls') > Len(genCalls) =>
          Len(genCalls') = Len(genCalls) + 1 /\ clickGenerate
     /\ Len(genCalls') < Len(genCalls) => Len(genCalls') = Len(genCalls) - 1
     /\ Len(editCalls') > Len(editCalls) =>
          /\ Len(editCalls') = Len(editCalls) + 1 /\ Requests(editCalls') = Requests(editCalls)
          /\ clickEdit
     /\ Requests(editCalls') > Requests(editCalls) =>
          /\ Len(editCalls') = Len(editCalls) /\ Requests(editCalls') = Requests(editCalls) + 1
          /\ \E i \in 1 .. MaxCalls : editReadResolved(i)
     /\ Requests(editCalls') < Requests(editCalls) =>
          Len(editCalls') = Len(editCalls) - 1 /\ Requests(editCalls') = Requests(editCalls) - 1
     /\ Len(editCalls') < Len(editCalls) => Len(editCalls') = Len(editCalls) - 1
     /\ \A i \in 1 .. MaxCalls :
          /\ editReadResolved(i) => Requests(editCalls') = Requests(editCalls) + 1
          /\ editReadRejected(i) => Requests(editCalls') = Requests(editCalls)]_vars
\* a request of the analysis has failed and nothing is in flight or queued
C16_Witness ==
  /\ error = AnalyzeFailedMsg /\ Len(analyses) = 0 /\ ~isAnalyzing /\ file = Null
  /\ Len(genCalls) = 0 /\ Len(editCalls) = 0

\* the step ends a call of the mounted generator / editor with an error on display
GenerationFails ==
  \E i \in DOMAIN genCalls :
    genCalls[i].live /\ genCalls' = RemoveAt(genCalls, i) /\ genError' # Null
EditFails ==
  \E i \in DOMAIN editCalls :
    editCalls[i].live /\ editCalls' = RemoveAt(editCalls, i) /\ editError' # Null

\* C17: the step in which an analysis fails ends with isAnalyzing false, file,
\* fileBase64 and report null and error set, and with the upload control on
\* the preflight tab; whenever the error of a failed analysis is on display
\* the upload control is there too, and the upload that starts from it clears
\* the error.  The step in which a generation or an edit of the mounted
\* component fails ends with the busy flag false and, if the prompt is not
\* blank, with the trigger on screen and enabled.
C17_FailureAllowsRetry ==
  /\ [](ErrorPanelShown => FileUploadShown /\ Len(analyses) < MaxCalls)
  /\ [][/\ AnalysisFails =>
             /\ ~isAnalyzing' /\ file' = Null /\ fileBase64' = Null /\ report' = JNull
             /\ error' # Null /\ error' # ""
             /\ activeTab' = "PREFLIGHT" => FileUploadShown' /\ ErrorPanelShown'
        /\ Len(analyses') > Len(analyses) => error' = Null /\ isAnalyzing'
        /\ GenerationFails =>
             /\ ~isGenerating'
             /\ Trim(genPrompt') # "" => GeneratorMounted' /\ ~GenerateDisabled'
        /\ EditFails =>
             /\ ~isProcessing'
             /\ Trim(editPrompt') # "" =>
                  EditorMounted' /\ originalFile' # Null /\ ~EditDisabled']_vars
\* the error of a failed file read is on display next to the upload control
C17_Witness == ErrorPanelShown /\ FileUploadShown /\ error = UnexpectedMsg

\* C18: when every file read and every remote call settles, an analysis that
\* has started is followed by a state with isAnalyzing false and either a
\* report or an error.
C18_AnalysisTerminates ==
  isAnalyzing ~> (~isAnalyzing /\ (report # JNull \/ error # Null))

\* C19: a report that is set changes only by becoming null, in handleReset or
\* at the start of a new upload; handleReset sets file, fileBase64, report and
\* error to null and leaves activeTab, hasApiKey and isAnalyzing as they are;
\* a step that switches the tab, moves the hover, toggles a section or turns
\* the page, and is not handleReset closing the dashboard, leaves report as
\* it is.
C19_ReportImmutable ==
  [][/\ (report # JNull /\ report' # report) =>
          /\ report' = JNull
          /\ handleReset \/ \E files \in FileLists : handleFileInput(files) \/ handleDrop(files)
     /\ handleReset =>
          /\ file' = Null /\ fileBase64' = Null /\ report' = JNull /\ error' = Null
          /\ UNCHANGED <<activeTab, hasApiKey, isAnalyzing>>
     /\ activeTab' # activeTab => report' = report
     /\ (/\ \/ activeZone' # activeZone \/ activeItemIndex' # activeItemIndex
            \/ expandedSections' # expandedSections \/ pageNum' # pageNum
         /\ ~handleReset) => report' = report]_vars
\* the report is on display after a page turn, a hover and a section toggle
C19_Witness ==
  /\ DashboardUsable /\ HasRequiredFields(report) /\ pageNum = 2
  /\ activeItemIndex # NoItem /\ expandedSections["PASS"]

\* C20: an upload is accepted, a generation or an edit is started, and a
\* request is in flight or about to be issued, only in states with
\* isCheckingKey = false and hasApiKey = true; hasApiKey never goes from true
\* to false and isCheckingKey never from false to true.
C20_CallsBehindGate ==
  /\ []((Len(analyses) > 0 \/ Len(genCalls) > 0 \/ Len(editCalls) > 0)
          => (~isCheckingKey /\ hasApiKey))
  /\ [][/\ (\/ Len(analyses') > Len(analyses) \/ Requests(analyses') > Requests(analyses)
            \/ Len(genCalls') > Len(genCalls)
            \/ Len(editCalls') > Len(editCalls) \/ Requests(editCalls') > Requests(editCalls))
             => (~isCheckingKey /\ hasApiKey)
        /\ hasApiKey => hasApiKey'
        /\ ~isCheckingKey => ~isCheckingKey']_vars
\* an edit request is with the service in an environment that has the key dialog
C20_Witness ==
  aistudio /\ hasApiKey /\ ~isCheckingKey /\ Requests(editCalls) = 1 /\ activeTab = "EDITOR"

\* a report that satisfies the response schema and the closed sets of the contract
SchemaValidCheck(c) ==
  /\ ValidCheck(c)
  /\ DOMAIN c.o \subseteq RequiredCheckFields \cup {"location", "visualZone"}
  /\ "location" \in DOMAIN c.o => c.o["location"].t = "str"
  /\ "visualZone" \in DOMAIN c.o => InEnumeration(c.o["visualZone"])
SchemaValid(r) ==
  /\ HasRequiredFields(r) /\ DOMAIN r.o = RequiredFields
  /\ r.o["overallScore"].t = "num" /\ r.o["summary"].t = "str"
  /\ ValidEnums(r)
  /\ \A i \in DOMAIN r.o["checks"].a : SchemaValidCheck(r.o["checks"].a[i])
  /\ r.o["specs"].t = "obj"
  /\ DOMAIN r.o["specs"].o =
       {"pageCount", "detectedDimensions", "colorProfileEstimate", "hasCropMarks"}
  /\ r.o["specs"].o["pageCount"].t = "num" /\ r.o["specs"].o["hasCropMarks"].t = "bool"
  /\ r.o["specs"].o["detectedDimensions"].t = "str"
  /\ r.o["specs"].o["colorProfileEstimate"].t = "str"
ValidReports == {v \in ReplyValues : SchemaValid(v)}

\* C21: for the JSON text of a schema-valid report r, analyzePdf resolves with
\* a value equal to r (same fields, same checks in the same order, score and
\* verdict as sent, also when the verdict contradicts the checks), and the
\* analysis that receives it stores exactly r as the report.
C21_RoundTrip ==
  /\ [](\A r \in ValidReports : AnalyzePdf(Response(Ser(r))) = Resolved(r))
  /\ [][\A i \in 1 .. MaxCalls, r \in ValidReports :
          analysisSettled(i, Response(Ser(r))) => report' = r /\ error' = error]_vars
\* the report with a FAIL check and the verdict READY_FOR_PRINT is on display
C21_Witness ==
  /\ report = ReportOf(97, "READY_FOR_PRINT", <<FailCheck>>) /\ report \in ValidReports
  /\ DashboardUsable /\ Len(checksByStatus(report, "FAIL")) = 1

\* C22: an analysis or a preview load that fails leaves activeTab, hasApiKey
\* and the state of the generator and the editor as they were, and behind the
\* gate the interface stays on screen: the main view with its tab buttons, or
\* the dashboard with its Back control, from which every tab and a new upload
\* can be reached.
C22_FailureStaysLocal ==
  /\ [](GatePassed => (MainView \/ DashboardUsable))
  /\ [][(AnalysisFails \/ (renderError' # Null /\ renderError = Null))
          => UNCHANGED <<activeTab, hasApiKey, genVars, editVars>>]_vars

\* C23: on the dashboard every check of the report is in the section of its
\* status and in no other, the counts of the FAIL, WARN and PASS sections add
\* up to the number of checks, and a section is rendered exactly when it has
\* a check.
C23_SectionsPartitionChecks ==
  DashboardUsable =>
    LET checks == Get(report, "checks").a
    IN /\ Len(checksByStatus(report, "FAIL")) + Len(checksByStatus(report, "WARN"))
            + Len(checksByStatus(report, "PASS")) = Len(checks)
       /\ \A k \in DOMAIN checks :
            \E st \in Statuses :
              /\ IsStr(Get(checks[k], "status"), st)
              /\ \E j \in DOMAIN checksByStatus(report, st) : checksByStatus(report, st)[j] = checks[k]
       /\ \A st \in Statuses :
            /\ SectionRendered(st) <=> Len(checksByStatus(report, st)) > 0
            /\ \A j \in DOMAIN checksByStatus(report, st) :
                 IsStr(Get(checksByStatus(report, st)[j], "status"), st)

\* the phase of the preflight session
Phase ==
  IF isAnalyzing THEN "analyzing"
  ELSE IF report # JNull THEN "report-ready"
  ELSE IF error # Null THEN "error"
  ELSE "idle"
SessionInvariants ==
  /\ isAnalyzing => (file # Null /\ report = JNull /\ error = Null)
  /\ report # JNull => (file # Null /\ fileBase64 # Null /\ error = Null)
  /\ error # Null => (file = Null /\ fileBase64 = Null /\ report = JNull)

\* C24: isAnalyzing implies file set, report null and error null; a report
\* implies file and fileBase64 set and error null; an error implies file,
\* fileBase64 and report null; the session goes from idle to analyzing, from
\* analyzing to report-ready or error, and from these to idle or analyzing,
\* and in no other way.
C24_SessionPhases ==
  /\ []SessionInvariants
  /\ [][Phase' # Phase =>
          \/ Phase = "idle" /\ Phase' = "analyzing"
          \/ Phase = "analyzing" /\ Phase' \in {"report-ready", "error"}
          \/ Phase \in {"report-ready", "error"} /\ Phase' \in {"idle", "analyzing"}]_vars

\* C25: pageNum is at least 1, and at most numPages once a document is
\* loaded; while none is loaded pageNum stays 1; pageNum goes down by one
\* only from a page above 1 and up by one only from a page below numPages,
\* and otherwise changes only when the dashboard is closed.
C25_PageInRange ==
  /\ [](/\ pageNum >= 1
        /\ numPages >= 1 => pageNum <= numPages
        /\ numPages = 0 => pageNum = 1)
  /\ [][(pageNum' # pageNum /\ ~handleReset) =>
          \/ pageNum' = pageNum - 1 /\ pageNum > 1
          \/ pageNum' = pageNum + 1 /\ pageNum < numPages]_vars
\* the last page of the longest document is on display
C25_Witness ==
  DashboardUsable /\ pdfDoc.loaded /\ numPages = MaxPages /\ pageNum = numPages

\* the key gate with its Connect API Key button is what App renders
KeyGateShown == ~isCheckingKey /\ ~hasApiKey

\* C26: when checkApiKey has run, isCheckingKey is false whatever the key
\* query did: hasApiKey is its answer when it answered, true when the query
\* is unavailable, and still false with the key gate on screen when it
\* threw; while isCheckingKey is true neither the upload control nor the
\* dashboard, the generator or the editor is rendered and nothing has been
\* started.
C26_KeyCheckEnds ==
  /\ [](/\ keyCheck = "done" => ~isCheckingKey
        /\ isCheckingKey =>
             /\ ~FileUploadShown /\ ~DashboardShown /\ ~GeneratorMounted /\ ~EditorMounted
             /\ keyCheck = "pending" /\ ~hasApiKey
             /\ Len(analyses) = 0 /\ Len(genCalls) = 0 /\ Len(editCalls) = 0)
  /\ [][\A outcome \in {"true", "false", "throws", "unavailable"} :
          checkApiKey(outcome) =>
            /\ isCheckingKey /\ ~isCheckingKey'
            /\ outcome = "true" => hasApiKey'
            /\ outcome = "false" => KeyGateShown'
            /\ outcome = "unavailable" => hasApiKey' /\ ~aistudio
            /\ outcome = "throws" => ~hasApiKey' /\ KeyGateShown']_vars
\* the key gate is on screen after the key query was made
C26_Witness == aistudio /\ keyCheck = "done" /\ KeyGateShown /\ selectKeyCalls = 0

\* C27: a call of handleGenerate with a blank prompt, and a call of handleEdit
\* with no source image or a blank prompt, changes no state of its component;
\* a request is started only with a non-blank prompt, and an edit request
\* only with a source image.
C27_BlankCallsDoNothing ==
  [][/\ (callHandleGenerate /\ Trim(genPrompt) = "") => UNCHANGED genVars
     /\ (callHandleEdit /\ (originalFile = Null \/ Trim(editPrompt) = "")) => UNCHANGED editVars
     /\ Len(genCalls') > Len(genCalls) => Trim(genPrompt) # ""
     /\ Len(editCalls') > Len(editCalls) =>
          originalFile # Null /\ Trim(editPrompt) # ""]_vars
\* a whitespace-only prompt next to an image and an error-free idle generator
C27_Witness ==
  /\ GeneratorMounted /\ genPrompt = "  " /\ generatedImage # NoImage
  /\ ~isGenerating /\ genError = Null /\ Len(genCalls) = 0

\* C28: in the generator an image and an error are never set together, and
\* while isGenerating is true neither is set; the step in which a generation
\* fails ends with no image.
C28_ImageXorError ==
  /\ [](/\ ~(generatedImage # NoImage /\ genError # Null)
        /\ isGenerating => (generatedImage = NoImage /\ genError = Null))
  /\ [][GenerationFails => generatedImage' = NoImage]_vars
\* the error of a rejected request is on display, and no image
C28_Witness ==
  /\ GeneratorMounted /\ genError = NetworkMsg /\ generatedImage = NoImage
  /\ ~isGenerating /\ Trim(genPrompt) # ""

====
